---------------------------- MODULE Spec2Model ----------------------------
(***************************************************************************)
(* Receipt tracker: the Apps Script poller (src/poller/poller.js) that     *)
(* scans a Drive folder and hands new files to the Ingress endpoint, and   *)
(* the Sheets Writer functions deployed by src/unnamed/part_000.           *)
(*                                                                         *)
(* Time is counted in whole minutes (the trigger period).  File ids are    *)
(* 1..NumFiles, given out in creation order; negative ids stand for files   *)
(* forwarded before the modelled behaviour starts.                         *)
(***************************************************************************)
EXTENDS Integers, Sequences, FiniteSets, TLC

\* ---------------------------------------------------------------- bounds
NumFiles == 2       \* files created in the watched folder
MaxTime == 6        \* last minute of the clock
PageSize == 1       \* files per page of Drive.Files.list
FullStart == 3      \* the minute at which a behaviour with a full cache starts
NumHashes == 2      \* content identities (image_hash) of receipts
NumMonths == 1      \* monthly ledgers
MaxDeliveries == 3  \* deliveries of Validation Outcomes to the writers
MaxValidations == 3 \* validations started by the validator instances

\* ------------------------------------------------------ program constants
attempts == 3               \* poller.js:111
BackoffUnitMs == 500        \* poller.js:122
SeenCap == 500              \* poller.js:93, poller.js:98
DefaultLookback == 5        \* poller.js:71
HttpOkLow == 200            \* poller.js:116
HttpOkHigh == 300           \* poller.js:116

\* ---------------------------------------------------------------- values
Null == <<>>
Some(v) == <<v>>
IsSet(p) == p # Null
Val(p) == p[1]

THROW == 0                          \* UrlFetchApp.fetch threw (no response)
ResponseCodes == {200, 401, 500}    \* codes the Ingress endpoint answers
Outcomes == ResponseCodes \cup {THROW}

FileIds == 1..NumFiles

\* an HTTP success status (used by the history and the properties)
Is2xx(r) == r \in 200..299

Range(s) == {s[k] : k \in 1..Len(s)}

\* Array.prototype.slice(-n): the last n elements
SliceLast(arr, n) ==
    IF Len(arr) <= n THEN arr ELSE SubSeq(arr, Len(arr) - n + 1, Len(arr))

\* Set.prototype.add on an insertion-ordered Set
SetAdd(s, x) == IF x \in Range(s) THEN s ELSE Append(s, x)

\* new Set(arr): insertion order, a repeated element kept at its first place
SetOf(arr) ==
    IF Cardinality(Range(arr)) = Len(arr) THEN arr
    ELSE LET first == {k \in 1..Len(arr) : \A j \in 1..(k - 1) : arr[j] # arr[k]}
             nth(n) == CHOOSE k \in first : Cardinality({j \in first : j < k}) = n - 1
         IN [n \in 1..Cardinality(first) |-> arr[nth(n)]]

\* ------------------------------------------------------------------ state
VARIABLES
    now,            \* the clock, in minutes
    triggered,      \* the time-driven trigger has fired in this minute
    files,          \* Drive folder: files[id] = createdTime, in creation order
    PROP,           \* the script properties
    pc,             \* pollFolder's position: idle, list, each, fetch, ret
    cfg,            \* loadConfig's result
    sinceIso,       \* lower end of the query window
    seen,           \* the in-memory Set of seen ids (insertion order)
    pageToken,      \* Null or the offset of the next page
    page,           \* res.files of the current page
    idx,            \* forEach position in page
    count,          \* files posted in this scan
    i,              \* postToIngress: attempt number
    callLog,        \* postToIngress: outcome of each attempt of this call
    sleeps,         \* postToIngress: Utilities.sleep arguments of this call
    ret,            \* postToIngress: return value (Null while running)
    \* history of the run, read by the properties only
    posted,         \* posted[id]: number of 2xx responses for id
    dropped,        \* dropped[id]: times a handed-off id lost its cache entry
    tried,          \* ids with an HTTP attempt in the current / last scan
    newIds,         \* ids that got a 2xx response in the current / last scan, in order
    skipped,        \* ids skipped as cached in the current / last scan
    prevFailed,     \* ids whose hand-off failed in the scan before
    startSeen,      \* SEEN_IDS_JSON when the current / last scan started
    startMark,      \* LAST_RUN_ISO when the current / last scan started
    added,          \* every id added to the cache by a persisted scan, in order
    outcome,        \* how the last scan ended: none, done, aborted, noconfig
    clean,          \* no scan so far ended in an exception
    twinSince       \* the window a run with another watermark computes

pollerVars == <<now, triggered, files, PROP, pc, cfg, sinceIso, seen, pageToken,
                page, idx, count, i, callLog, sleeps, ret, posted, dropped,
                tried, newIds, skipped, prevFailed, startSeen, startMark, added,
                outcome, clean, twinSince>>

VARIABLES
    deliveries,     \* deliveries made so far
    wpc,            \* wpc[w]: position of writer function w
    wmsg,           \* wmsg[w]: the outcome writer w is handling
    wrows,          \* wrows[w]: the ledger rows writer w has read
    ledger,         \* ledger[m]: the rows of monthly ledger m, in order
    aggregate,      \* aggregate[m]: the MONTH TOTAL row of ledger m
    lock,           \* lock[m]: the writer holding ledger m's lock
    appendCount,    \* appendCount[m][h]: appends of h's rows to ledger m
    suppressed      \* <<w, h>>: writer w has finished a delivery for h without appending

ledgerVars == <<deliveries, wpc, wmsg, wrows, ledger, aggregate, lock,
                appendCount, suppressed>>

VARIABLES
    validations,    \* validations started so far
    markers,        \* the dedupe keys that have a marker in the marker store
    vpc,            \* vpc[v]: position of validator instance v
    vmsg,           \* vmsg[v]: the content identity instance v is validating
    vsaw,           \* vsaw[v]: what v's look into the marker store returned
    published,      \* <<w, h, m>>: an outcome with rows published on topic w
    \* history
    vpresent,       \* vpresent[v]: the marker was there when v looked
    accepted,       \* accepted[h]: validations of h that committed and published rows
    duplicates,     \* duplicates[h]: validations of h that emitted Duplicate
    raced           \* raced[h]: commits of h's marker over one written since the look

validatorVars == <<validations, markers, vpc, vmsg, vsaw, published, vpresent,
                   accepted, duplicates, raced>>

pipelineVars == <<ledgerVars, validatorVars>>

vars == <<pollerVars, ledgerVars, validatorVars>>

\* ------------------------------------------------------------- the poller

\* loadConfig: parseInt(LOOKBACK_MINUTES || '5', 10)
lookbackOf(prop) ==
    IF IsSet(prop.LOOKBACK_MINUTES) THEN Val(prop.LOOKBACK_MINUTES)
    ELSE DefaultLookback

\* A version that throws only when all three are missing
configMissingAll(prop) ==
    ~IsSet(prop.FOLDER_ID) /\ ~IsSet(prop.INGRESS_URL) /\ ~IsSet(prop.API_KEY)

\* loadConfig: the check that throws
configMissing(prop) ==
    ~IsSet(prop.FOLDER_ID) \/ ~IsSet(prop.INGRESS_URL) \/ ~IsSet(prop.API_KEY)

loadConfig(prop) ==
    [folderId |-> prop.FOLDER_ID, endpoint |-> prop.INGRESS_URL,
     apiKey |-> prop.API_KEY, lookbackMinutes |-> lookbackOf(prop)]

\* A version that takes the stored watermark as the lower end when there is one
computeSinceIsoFromWatermark(lookbackMinutes, t, lastRun) ==
    IF IsSet(lastRun) THEN Val(lastRun) ELSE t - lookbackMinutes

\* computeSinceIso: now - lookback; lastRun is the stored LAST_RUN_ISO,
\* which the function overwrites and does not read
computeSinceIso(lookbackMinutes, t, lastRun) ==
    t - lookbackMinutes

\* A version that starts every run with an empty Set
loadSeenIdsEmpty(raw) == <<>>

loadSeenIds(raw) == SetOf(SliceLast(raw, SeenCap))

\* A version that keeps the oldest ids
persistSeenIdsOldest(seenSet) ==
    IF Len(seenSet) <= SeenCap THEN seenSet ELSE SubSeq(seenSet, 1, SeenCap)

persistSeenIds(seenSet) == SliceLast(seenSet, SeenCap)

\* the query: createdTime >= sinceIso, orderBy createdTime
RECURSIVE Matching(_, _, _)
Matching(fs, since, k) ==
    IF k > Len(fs) THEN <<>>
    ELSE (IF fs[k] >= since THEN <<k>> ELSE <<>>) \o Matching(fs, since, k + 1)

Offset(token) == IF IsSet(token) THEN Val(token) ELSE 0

\* Drive.Files.list: one page of the matching files and the next page's token
DriveList(fs, since, token) ==
    LET m == Matching(fs, since, 1)
        lo == Offset(token)
        hi == IF lo + PageSize < Len(m) THEN lo + PageSize ELSE Len(m)
    IN [files |-> SubSeq(m, lo + 1, hi),
        nextPageToken |-> IF hi < Len(m) THEN Some(hi) ELSE Null]

\* A version that takes every response for a success
isSuccessAny(code) == code # THROW

\* code >= 200 && code < 300
isSuccess(code) == code >= HttpOkLow /\ code < HttpOkHigh

\* A version that does not retry an authentication error
loopContinuesUnless401(attempt, r) == r # 401 /\ attempt + 1 <= attempts

\* A version that stops after the first failed attempt
loopContinuesNever(attempt, r) == FALSE

\* for (let i = 1; i <= attempts; i++): after a failed attempt that got r,
\* whatever r is, the loop goes on while i + 1 <= attempts
loopContinues(attempt, r) == attempt + 1 <= attempts

\* A version that doubles the wait
backoffMsDoubling(attempt) == BackoffUnitMs * (2 ^ (attempt - 1))

\* Utilities.sleep(500 * i)
backoffMs(attempt) == BackoffUnitMs * attempt

\* A version that adds the id whatever the hand-off returned
addAlways(seenSet, id, ok) == SetAdd(seenSet, id)

\* if (ok) seen.add(f.id)
addIfOk(seenSet, id, ok) == IF ok THEN SetAdd(seenSet, id) ELSE seenSet

\* A version that passes over every listed file
skipAlways(seenSet, id) == TRUE

\* A version that posts every listed file
skipNever(seenSet, id) == FALSE

\* if (seen.has(f.id)) return
skipFile(seenSet, id) == id \in Range(seenSet)

\* ------------------------------------------------------- the Sheets Writer
\* Two functions, sheets_writer_valid and sheets_writer_review, run the same
\* entry point on the topics receipts.valid and receipts.review.

Writers == {"valid", "review"}
Hashes == 1..NumHashes
Months == 1..NumMonths

StatusOf(w) == IF w = "valid" THEN "OK" ELSE "NEEDS REVIEW"

\* the receipts of the model: receipt 1 has one line item, the others two;
\* receipts 1 and 2 are different receipts with the same total
LineItems(h) == IF h = 1 THEN 1 ELSE 2
TotalOf(h) == 23 + 3 * (h \div 3)
\* the month of the purchase date on receipt h
MonthOf(h) == 1 + (h % NumMonths)

\* the rows the validator rendered: one per line item, each with the shared
\* header fields
RowsOf(msg) ==
    [k \in 1..LineItems(msg.image_hash) |->
        [image_hash |-> msg.image_hash, status |-> msg.status,
         total |-> TotalOf(msg.image_hash)]]

\* a row bearing this content identity exists
hasRow(rows, h) == \E k \in 1..Len(rows) : rows[k].image_hash = h

\* A version that lets every writer in
lockFreeAlways(l) == TRUE

\* the per-ledger lock can be taken
lockFree(l) == l = Null

RECURSIVE SumTotals(_)
SumTotals(S) ==
    IF S = {} THEN 0
    ELSE LET p == CHOOSE q \in S : TRUE IN p[2] + SumTotals(S \ {p})

\* A version without UNIQUE: every row that is not NEEDS REVIEW is summed
recomputeAggregateEveryRow(rows) ==
    IF rows = <<>> THEN 0
    ELSE LET F[k \in 0..Len(rows)] ==
                 IF k = 0 THEN 0
                 ELSE F[k - 1] + (IF rows[k].status # "NEEDS REVIEW"
                                  THEN rows[k].total ELSE 0)
         IN F[Len(rows)]

\* the footer: sum of total over the unique (image_hash, total) pairs of the
\* rows whose status is not NEEDS REVIEW
recomputeAggregate(rows) ==
    SumTotals({<<rows[k].image_hash, rows[k].total>> :
                 k \in {j \in 1..Len(rows) : rows[j].status # "NEEDS REVIEW"}})

LedgerInit ==
    /\ deliveries = 0
    /\ wpc = [w \in Writers |-> "idle"]
    /\ wmsg = [w \in Writers |-> Null]
    /\ wrows = [w \in Writers |-> <<>>]
    /\ ledger = [m \in Months |-> <<>>]
    /\ aggregate = [m \in Months |-> Null]
    /\ lock = [m \in Months |-> Null]
    /\ appendCount = [m \in Months |-> [h \in Hashes |-> 0]]
    /\ suppressed = {}

\* ----------------------------------------------------------- the Validator
\* Instances of the validator run concurrently on receipts.parsed; two are
\* enough for a race.

Validators == {1, 2}

\* A version that never finds a marker
markerPresentNever(ms, key) == FALSE

\* the look into the durable marker store, one marker object per key
markerPresent(ms, key) == key \in ms

ValidatorInit ==
    /\ validations = 0
    /\ markers = {}
    /\ vpc = [v \in Validators |-> "idle"]
    /\ vmsg = [v \in Validators |-> Null]
    /\ vsaw = [v \in Validators |-> FALSE]
    /\ published = {}
    /\ vpresent = [v \in Validators |-> FALSE]
    /\ accepted = [h \in Hashes |-> 0]
    /\ duplicates = [h \in Hashes |-> 0]
    /\ raced = [h \in Hashes |-> 0]

\* ------------------------------------------------------------------ Init

NoProps ==
    [FOLDER_ID |-> Null, INGRESS_URL |-> Null, API_KEY |-> Null,
     LOOKBACK_MINUTES |-> Null, LAST_RUN_ISO |-> Null, SEEN_IDS_JSON |-> <<>>]

FullConfig ==
    [NoProps EXCEPT !.FOLDER_ID = Some("folder"), !.INGRESS_URL = Some("url"),
                    !.API_KEY = Some("key")]

\* the script properties a deployment can start with: complete, or with one
\* of the required properties not set
Configs ==
    {FullConfig,
     [FullConfig EXCEPT !.FOLDER_ID = Null],
     [FullConfig EXCEPT !.INGRESS_URL = Null],
     [FullConfig EXCEPT !.API_KEY = Null]}

\* watermarks a previous deployment can have left behind
Watermarks == {Null} \cup {Some(t) : t \in (0 - 2)..MaxTime}

\* n entries of an older cache, oldest first
Filler(n) == [k \in 1..n |-> k - n - 1]

ScanIdle ==
    /\ pc = "idle"
    /\ cfg = Null
    /\ sinceIso = 0
    /\ seen = <<>>
    /\ pageToken = Null
    /\ page = <<>>
    /\ idx = 0
    /\ count = 0
    /\ i = 0
    /\ callLog = <<>>
    /\ sleeps = <<>>
    /\ ret = Null

HistoryInit ==
    /\ dropped = [f \in FileIds |-> 0]
    /\ tried = {}
    /\ newIds = <<>>
    /\ skipped = {}
    /\ prevFailed = {}
    /\ startSeen = <<>>
    /\ startMark = Null
    /\ outcome = "none"
    /\ clean = TRUE
    /\ twinSince = 0

\* a fresh deployment: empty folder, empty cache
Init ==
    /\ now = 0
    /\ triggered = FALSE
    /\ files = <<>>
    /\ \E c \in Configs, w \in {Null, Some(0 - 1)} :
          PROP = [c EXCEPT !.LAST_RUN_ISO = w]
    /\ ScanIdle
    /\ HistoryInit
    /\ posted = [f \in FileIds |-> 0]
    /\ added = <<>>
    /\ LedgerInit
    /\ ValidatorInit

\* a deployment whose cache is full: in minute FullStart file 1 was handed
\* off, and SeenCap - 1 other files after it
InitFull ==
    /\ now = FullStart
    /\ triggered = FALSE
    /\ files = <<FullStart>>
    /\ \E c \in Configs :
          PROP = [c EXCEPT !.SEEN_IDS_JSON = <<1>> \o Filler(SeenCap - 1)]
    /\ ScanIdle
    /\ HistoryInit
    /\ posted = [f \in FileIds |-> IF f = 1 THEN 1 ELSE 0]
    /\ added = <<1>> \o Filler(SeenCap - 1)
    /\ LedgerInit
    /\ ValidatorInit

\* a complete deployment that is switched on in minute FullStart
InitLate ==
    /\ now = FullStart
    /\ triggered = FALSE
    /\ files = <<>>
    /\ PROP = FullConfig
    /\ ScanIdle
    /\ HistoryInit
    /\ posted = [f \in FileIds |-> 0]
    /\ added = <<>>
    /\ LedgerInit
    /\ ValidatorInit

\* ----------------------------------------------------------- environment

\* a file is created (scanned) into the watched folder
CreateFile ==
    /\ Len(files) < NumFiles
    /\ files' = Append(files, now)
    /\ UNCHANGED <<now, triggered, PROP, pc, cfg, sinceIso, seen, pageToken,
                   page, idx, count, i, callLog, sleeps, ret, posted, dropped,
                   tried, newIds, skipped, prevFailed, startSeen, startMark,
                   added, outcome, clean, twinSince>>
    /\ UNCHANGED pipelineVars

\* a minute passes; the trigger has fired and its run is over
Tick ==
    /\ pc = "idle"
    /\ triggered
    /\ now < MaxTime
    /\ now' = now + 1
    /\ triggered' = FALSE
    /\ UNCHANGED <<files, PROP, pc, cfg, sinceIso, seen, pageToken,
                   page, idx, count, i, callLog, sleeps, ret, posted, dropped,
                   tried, newIds, skipped, prevFailed, startSeen, startMark,
                   added, outcome, clean, twinSince>>
    /\ UNCHANGED pipelineVars

\* between two runs the owner deletes one of the required script properties
RemoveProperty(k) ==
    /\ pc = "idle"
    /\ ~configMissing(PROP)
    /\ PROP' = [PROP EXCEPT ![k] = Null]
    /\ UNCHANGED <<now, triggered, files, pc, cfg, sinceIso, seen, pageToken,
                   page, idx, count, i, callLog, sleeps, ret, posted, dropped,
                   tried, newIds, skipped, prevFailed, startSeen, startMark,
                   added, outcome, clean, twinSince>>
    /\ UNCHANGED pipelineVars

\* --------------------------------------------------------------- pollFolder

\* the trigger fires and loadConfig throws: nothing else runs
StartScanNoConfig ==
    /\ pc = "idle"
    /\ ~triggered
    /\ configMissing(PROP)
    /\ triggered' = TRUE
    /\ outcome' = "noconfig"
    /\ clean' = FALSE
    /\ prevFailed' = tried \ Range(newIds)
    /\ tried' = {}
    /\ newIds' = <<>>
    /\ skipped' = {}
    /\ startSeen' = PROP.SEEN_IDS_JSON
    /\ startMark' = PROP.LAST_RUN_ISO
    /\ UNCHANGED <<now, files, PROP, pc, cfg, sinceIso, seen, pageToken,
                   page, idx, count, i, callLog, sleeps, ret, posted, dropped,
                   added, twinSince>>
    /\ UNCHANGED pipelineVars

\* the trigger fires: loadConfig, computeSinceIso, loadSeenIds
StartScan ==
    /\ pc = "idle"
    /\ ~triggered
    /\ ~configMissing(PROP)
    /\ triggered' = TRUE
    /\ LET c == loadConfig(PROP)
       IN /\ cfg' = Some(c)
          /\ sinceIso' = computeSinceIso(c.lookbackMinutes, now, PROP.LAST_RUN_ISO)
          /\ \E w \in Watermarks \ {PROP.LAST_RUN_ISO} :
                twinSince' = computeSinceIso(c.lookbackMinutes, now, w)
    /\ PROP' = [PROP EXCEPT !.LAST_RUN_ISO = Some(now)]
    /\ seen' = loadSeenIds(PROP.SEEN_IDS_JSON)
    /\ pageToken' = Null
    /\ page' = <<>>
    /\ idx' = 0
    /\ count' = 0
    /\ pc' = "list"
    /\ prevFailed' = tried \ Range(newIds)
    /\ tried' = {}
    /\ newIds' = <<>>
    /\ skipped' = {}
    /\ startSeen' = PROP.SEEN_IDS_JSON
    /\ startMark' = PROP.LAST_RUN_ISO
    /\ outcome' = "running"
    /\ UNCHANGED <<now, files, i, callLog, sleeps, ret, posted, dropped, added,
                   clean>>
    /\ UNCHANGED pipelineVars

\* Drive.Files.list returns a page
ListPage ==
    /\ pc = "list"
    /\ LET res == DriveList(files, sinceIso, pageToken)
       IN /\ page' = res.files
          /\ pageToken' = res.nextPageToken
    /\ idx' = 1
    /\ pc' = "each"
    /\ UNCHANGED <<now, triggered, files, PROP, cfg, sinceIso, seen, count, i,
                   callLog, sleeps, ret, posted, dropped, tried, newIds, skipped,
                   prevFailed, startSeen, startMark, added, outcome, clean, twinSince>>
    /\ UNCHANGED pipelineVars

\* The listing is not a snapshot: when an item enters it before the position
\* a page token stands for, the page that token returns starts one entry
\* earlier and repeats the last file of the page before.
ListPageShifted ==
    /\ pc = "list"
    /\ IsSet(pageToken)
    /\ Offset(pageToken) >= 1
    /\ LET res == DriveList(files, sinceIso, Some(Offset(pageToken) - 1))
       IN /\ page' = res.files
          /\ pageToken' = res.nextPageToken
    /\ idx' = 1
    /\ pc' = "each"
    /\ UNCHANGED <<now, triggered, files, PROP, cfg, sinceIso, seen, count, i,
                   callLog, sleeps, ret, posted, dropped, tried, newIds, skipped,
                   prevFailed, startSeen, startMark, added, outcome, clean, twinSince>>
    /\ UNCHANGED pipelineVars

\* the locals of a run are gone when it ends
ScanEnds ==
    /\ pc' = "idle"
    /\ cfg' = Null
    /\ sinceIso' = sinceIso
    /\ seen' = <<>>
    /\ pageToken' = Null
    /\ page' = <<>>
    /\ idx' = 0
    /\ count' = 0

LostBy(before, after) ==
    [f \in FileIds |-> IF f \in before /\ f \notin after THEN dropped[f] + 1
                       ELSE dropped[f]]

\* A version that persists the cache on the way out (try / finally)
ListThrowsPersisting ==
    /\ pc = "list"
    /\ ScanEnds
    /\ outcome' = "aborted"
    /\ clean' = FALSE
    /\ PROP' = [PROP EXCEPT !.SEEN_IDS_JSON = persistSeenIds(seen)]
    /\ dropped' = LostBy(Range(startSeen) \cup Range(seen),
                         Range(PROP'.SEEN_IDS_JSON))
    /\ UNCHANGED <<now, triggered, files, i, callLog, sleeps, ret, posted,
                   tried, newIds, skipped, prevFailed, startSeen, startMark,
                   added, twinSince>>
    /\ UNCHANGED pipelineVars

\* Drive.Files.list throws: the exception ends pollFolder
ListThrows ==
    /\ pc = "list"
    /\ ScanEnds
    /\ outcome' = "aborted"
    /\ clean' = FALSE
    /\ dropped' = LostBy(Range(seen), Range(PROP.SEEN_IDS_JSON))
    /\ UNCHANGED <<now, triggered, files, PROP, i, callLog, sleeps, ret, posted,
                   tried, newIds, skipped, prevFailed, startSeen, startMark,
                   added, twinSince>>
    /\ UNCHANGED pipelineVars

\* forEach: a file whose id is in the cache is skipped
SkipFile ==
    /\ pc = "each"
    /\ idx <= Len(page)
    /\ skipFile(seen, page[idx])
    /\ idx' = idx + 1
    /\ skipped' = skipped \cup {page[idx]}
    /\ UNCHANGED <<now, triggered, files, PROP, pc, cfg, sinceIso, seen,
                   pageToken, page, count, i, callLog, sleeps, ret, posted,
                   dropped, tried, newIds, prevFailed, startSeen, startMark,
                   added, outcome, clean, twinSince>>
    /\ UNCHANGED pipelineVars

\* forEach: postToIngress is called for a file that is not in the cache
CallPost ==
    /\ pc = "each"
    /\ idx <= Len(page)
    /\ ~skipFile(seen, page[idx])
    /\ i' = 1
    /\ callLog' = <<>>
    /\ sleeps' = <<>>
    /\ ret' = Null
    /\ pc' = "fetch"
    /\ UNCHANGED <<now, triggered, files, PROP, cfg, sinceIso, seen, pageToken,
                   page, idx, count, posted, dropped, tried, newIds, skipped,
                   prevFailed, startSeen, startMark, added, outcome, clean, twinSince>>
    /\ UNCHANGED pipelineVars

\* postToIngress: one pass of the retry loop, UrlFetchApp.fetch answering r
Fetch(r) ==
    /\ pc = "fetch"
    /\ i <= attempts
    /\ callLog' = Append(callLog, r)
    /\ tried' = tried \cup {page[idx]}
    /\ posted' = IF Is2xx(r) THEN [posted EXCEPT ![page[idx]] = @ + 1] ELSE posted
    /\ IF r # THROW /\ isSuccess(r)
       THEN /\ ret' = Some(TRUE)
            /\ pc' = "ret"
            /\ UNCHANGED <<i, sleeps>>
       ELSE /\ sleeps' = Append(sleeps, backoffMs(i))
            /\ i' = i + 1
            /\ IF loopContinues(i, r)
               THEN /\ ret' = ret
                    /\ pc' = pc
               ELSE /\ ret' = Some(FALSE)
                    /\ pc' = "ret"
    /\ UNCHANGED <<now, triggered, files, PROP, cfg, sinceIso, seen, pageToken,
                   page, idx, count, dropped, newIds, skipped, prevFailed,
                   startSeen, startMark, added, outcome, clean, twinSince>>
    /\ UNCHANGED pipelineVars

\* forEach: if (ok) { seen.add(f.id); count++ }
AfterPost ==
    /\ pc = "ret"
    /\ seen' = addIfOk(seen, page[idx], Val(ret))
    /\ count' = IF Val(ret) THEN count + 1 ELSE count
    /\ newIds' = IF Val(ret) THEN Append(newIds, page[idx]) ELSE newIds
    /\ idx' = idx + 1
    /\ i' = 0
    /\ callLog' = <<>>
    /\ sleeps' = <<>>
    /\ ret' = Null
    /\ pc' = "each"
    /\ UNCHANGED <<now, triggered, files, PROP, cfg, sinceIso, pageToken, page,
                   posted, dropped, tried, skipped, prevFailed, startSeen,
                   startMark, added, outcome, clean, twinSince>>
    /\ UNCHANGED pipelineVars

\* the page is done and there is a next page
NextPage ==
    /\ pc = "each"
    /\ idx > Len(page)
    /\ IsSet(pageToken)
    /\ pc' = "list"
    /\ UNCHANGED <<now, triggered, files, PROP, cfg, sinceIso, seen, pageToken,
                   page, idx, count, i, callLog, sleeps, ret, posted, dropped,
                   tried, newIds, skipped, prevFailed, startSeen, startMark,
                   added, outcome, clean, twinSince>>
    /\ UNCHANGED pipelineVars

\* the last page is done: persistSeenIds, and pollFolder returns
FinishScan ==
    /\ pc = "each"
    /\ idx > Len(page)
    /\ ~IsSet(pageToken)
    /\ PROP' = [PROP EXCEPT !.SEEN_IDS_JSON = persistSeenIds(seen)]
    /\ ScanEnds
    /\ outcome' = "done"
    /\ dropped' = LostBy(Range(startSeen) \cup Range(seen),
                         Range(PROP'.SEEN_IDS_JSON))
    /\ added' = added \o newIds
    /\ UNCHANGED <<now, triggered, files, i, callLog, sleeps, ret, posted,
                   tried, newIds, skipped, prevFailed, startSeen, startMark,
                   clean, twinSince>>
    /\ UNCHANGED pipelineVars

\* ------------------------------------------------------ the writers' steps

\* Pub/Sub delivers (or redelivers) to the function on topic w the outcome
\* the validator published for content identity h and month m
Deliver(w, h, m) ==
    /\ wpc[w] = "idle"
    /\ deliveries < MaxDeliveries
    /\ deliveries' = deliveries + 1
    /\ wmsg' = [wmsg EXCEPT ![w] =
                   Some([image_hash |-> h, month_key |-> m, status |-> StatusOf(w)])]
    /\ wpc' = [wpc EXCEPT ![w] = "acquire"]
    /\ UNCHANGED <<wrows, ledger, aggregate, lock, appendCount, suppressed>>
    /\ UNCHANGED <<pollerVars, validatorVars>>

\* the writer takes the lock of the target ledger
Acquire(w) ==
    /\ wpc[w] = "acquire"
    /\ lockFree(lock[Val(wmsg[w]).month_key])
    /\ lock' = [lock EXCEPT ![Val(wmsg[w]).month_key] = Some(w)]
    /\ wpc' = [wpc EXCEPT ![w] = "read"]
    /\ UNCHANGED <<deliveries, wmsg, wrows, ledger, aggregate,
                   appendCount, suppressed>>
    /\ UNCHANGED <<pollerVars, validatorVars>>

\* the writer reads the current rows of the ledger
ReadRows(w) ==
    /\ wpc[w] = "read"
    /\ wrows' = [wrows EXCEPT ![w] = ledger[Val(wmsg[w]).month_key]]
    /\ wpc' = [wpc EXCEPT ![w] = "append"]
    /\ UNCHANGED <<deliveries, wmsg, ledger, aggregate, lock,
                   appendCount, suppressed>>
    /\ UNCHANGED <<pollerVars, validatorVars>>

\* append only if no row bearing this content identity was read
AppendRows(w) ==
    /\ wpc[w] = "append"
    /\ LET msg == Val(wmsg[w])
           m == msg.month_key
           h == msg.image_hash
       IN IF hasRow(wrows[w], h)
          THEN /\ wpc' = [wpc EXCEPT ![w] = "release"]
               /\ suppressed' = suppressed \cup {<<w, h>>}
               /\ UNCHANGED <<ledger, appendCount>>
          ELSE /\ ledger' = [ledger EXCEPT ![m] = @ \o RowsOf(msg)]
               /\ appendCount' = [appendCount EXCEPT ![m][h] = @ + 1]
               /\ wpc' = [wpc EXCEPT ![w] = "recompute"]
               /\ UNCHANGED suppressed
    /\ UNCHANGED <<deliveries, wmsg, wrows, aggregate, lock>>
    /\ UNCHANGED <<pollerVars, validatorVars>>

\* after an append the aggregate row is recomputed and overwritten
Recompute(w) ==
    /\ wpc[w] = "recompute"
    /\ LET m == Val(wmsg[w]).month_key
       IN aggregate' = [aggregate EXCEPT ![m] = Some(recomputeAggregate(ledger[m]))]
    /\ wpc' = [wpc EXCEPT ![w] = "release"]
    /\ UNCHANGED <<deliveries, wmsg, wrows, ledger, lock, appendCount,
                   suppressed>>
    /\ UNCHANGED <<pollerVars, validatorVars>>

\* the writer gives the lock back and acknowledges the message
Release(w) ==
    /\ wpc[w] = "release"
    /\ lock' = [lock EXCEPT ![Val(wmsg[w]).month_key] =
                   IF @ = Some(w) THEN Null ELSE @]
    /\ wmsg' = [wmsg EXCEPT ![w] = Null]
    /\ wrows' = [wrows EXCEPT ![w] = <<>>]
    /\ wpc' = [wpc EXCEPT ![w] = "idle"]
    /\ UNCHANGED <<deliveries, ledger, aggregate, appendCount, suppressed>>
    /\ UNCHANGED <<pollerVars, validatorVars>>

\* --------------------------------------------------- the validator's steps

\* Pub/Sub delivers to instance v a parsed event whose content identity is h
Receive(v, h) ==
    /\ vpc[v] = "idle"
    /\ validations < MaxValidations
    /\ validations' = validations + 1
    /\ vmsg' = [vmsg EXCEPT ![v] = Some(h)]
    /\ vpc' = [vpc EXCEPT ![v] = "check"]
    /\ UNCHANGED <<markers, vsaw, published, vpresent, accepted, duplicates,
                   raced>>
    /\ UNCHANGED <<pollerVars, ledgerVars>>

\* dedupe decision, first half: was a record with this key already committed
CheckMarker(v) ==
    /\ vpc[v] = "check"
    /\ vsaw' = [vsaw EXCEPT ![v] = markerPresent(markers, Val(vmsg[v]))]
    /\ vpresent' = [vpresent EXCEPT ![v] = Val(vmsg[v]) \in markers]
    /\ vpc' = [vpc EXCEPT ![v] = "decide"]
    /\ UNCHANGED <<validations, markers, vmsg, published, accepted,
                   duplicates, raced>>
    /\ UNCHANGED <<pollerVars, ledgerVars>>

\* the key was committed before: a terminal Duplicate outcome, which carries
\* the dedupe key only and goes to receipts.duplicate
EmitDuplicate(v) ==
    /\ vpc[v] = "decide"
    /\ vsaw[v]
    /\ duplicates' = [duplicates EXCEPT ![Val(vmsg[v])] = @ + 1]
    /\ vmsg' = [vmsg EXCEPT ![v] = Null]
    /\ vpc' = [vpc EXCEPT ![v] = "idle"]
    /\ UNCHANGED <<validations, markers, vsaw, published, vpresent, accepted,
                   raced>>
    /\ UNCHANGED <<pollerVars, ledgerVars>>

\* dedupe decision, second half: the marker is written, the rows are rendered
\* and the outcome goes to receipts.valid or receipts.review
Accept(v, w) ==
    /\ vpc[v] = "decide"
    /\ ~vsaw[v]
    /\ LET h == Val(vmsg[v])
       IN /\ markers' = markers \cup {h}
          /\ published' = published \cup {<<w, h, MonthOf(h)>>}
          /\ accepted' = [accepted EXCEPT ![h] = @ + 1]
          /\ raced' = [raced EXCEPT ![h] =
                          IF h \in markers /\ ~vpresent[v] THEN @ + 1 ELSE @]
    /\ vmsg' = [vmsg EXCEPT ![v] = Null]
    /\ vpc' = [vpc EXCEPT ![v] = "idle"]
    /\ UNCHANGED <<validations, vsaw, vpresent, duplicates>>
    /\ UNCHANGED <<pollerVars, ledgerVars>>

\* Pub/Sub delivers (or redelivers) a published outcome to its writer
DeliverPublished(w, h, m) ==
    /\ <<w, h, m>> \in published
    /\ Deliver(w, h, m)

NextLedger ==
    \/ \E w \in Writers, h \in Hashes, m \in Months : Deliver(w, h, m)
    \/ \E w \in Writers : Acquire(w)
    \/ \E w \in Writers : ReadRows(w)
    \/ \E w \in Writers : AppendRows(w)
    \/ \E w \in Writers : Recompute(w)
    \/ \E w \in Writers : Release(w)

\* the poller at rest, the writers at work
InitLedger ==
    /\ now = 0
    /\ triggered = FALSE
    /\ files = <<>>
    /\ PROP = FullConfig
    /\ ScanIdle
    /\ HistoryInit
    /\ posted = [f \in FileIds |-> 0]
    /\ added = <<>>
    /\ LedgerInit
    /\ ValidatorInit

Next ==
    \/ CreateFile
    \/ Tick
    \/ StartScanNoConfig
    \/ StartScan
    \/ ListPage
    \/ ListThrows
    \/ SkipFile
    \/ CallPost
    \/ \E r \in Outcomes : Fetch(r)
    \/ AfterPost
    \/ NextPage
    \/ FinishScan

Spec == Init /\ [][Next]_vars

SpecFull == InitFull /\ [][Next]_vars

\* the poller in an environment that changes under it: the listing shifts
\* during a scan, a required property is deleted between runs
NextChanging ==
    \/ Next
    \/ ListPageShifted
    \/ \E k \in {"FOLDER_ID", "INGRESS_URL", "API_KEY"} : RemoveProperty(k)

SpecChanging == InitLate /\ [][NextChanging]_vars

SpecLedger == InitLedger /\ [][NextLedger]_vars

\* the validator instances and the writers behind them
NextValidator ==
    \/ \E v \in Validators, h \in Hashes : Receive(v, h)
    \/ \E v \in Validators : CheckMarker(v)
    \/ \E v \in Validators : EmitDuplicate(v)
    \/ \E v \in Validators, w \in Writers : Accept(v, w)
    \/ \E w \in Writers, h \in Hashes, m \in Months : DeliverPublished(w, h, m)
    \/ \E w \in Writers : Acquire(w)
    \/ \E w \in Writers : ReadRows(w)
    \/ \E w \in Writers : AppendRows(w)
    \/ \E w \in Writers : Recompute(w)
    \/ \E w \in Writers : Release(w)

SpecValidator == InitLedger /\ [][NextValidator]_vars

\* ------------------------------------------------------------ properties

Cached == Range(seen) \cup Range(PROP.SEEN_IDS_JSON)
InFolder == 1..Len(files)
AllFailed(log) == \A k \in 1..Len(log) : ~Is2xx(log[k])
RowCount(rows, h) == Cardinality({k \in 1..Len(rows) : rows[k].image_hash = h})

\* C1: starting from an empty cache, every id in the in-memory Set or in the
\* persisted SEEN_IDS_JSON has got a 2xx response from the Ingress endpoint,
\* and an id the running scan added to the Set got its 2xx in that scan.
C1_CacheOnlyHandedOff ==
    /\ \A id \in Cached : id \in FileIds /\ posted[id] > 0
    /\ pc # "idle" => (Range(seen) \ Range(startSeen)) \subseteq Range(newIds)

\* C1 witness: a scan is over in which one file was handed off and cached
\* and another was tried without success and is not cached.
C1_Witness ==
    /\ pc = "idle"
    /\ outcome = "done"
    /\ \E f \in InFolder, g \in InFolder :
          /\ f \in Range(PROP.SEEN_IDS_JSON)
          /\ g \in tried
          /\ posted[g] = 0
          /\ g \notin Range(PROP.SEEN_IDS_JSON)

\* C2 as stated: no file gets a 2xx response in more than one scan.
C2_AtMostOneHandOff ==
    \A f \in FileIds : posted[f] <= 1

\* C2 amended: a file gets a 2xx response in at most one scan, plus one for
\* each time its cache entry was lost: the scan that handed it off ended in
\* an exception before persistSeenIds, or the id was trimmed out of the cache.
C2_AtMostOneHandOffPerCacheEntry ==
    \A f \in FileIds : posted[f] <= 1 + dropped[f]

\* C2 witness: the sixth scan whose window holds the file (lookback minutes
\* after its creation) skips it, the file having been handed off once.
C2_Witness ==
    \E f \in InFolder :
        /\ now = files[f] + lookbackOf(PROP)
        /\ f \in skipped
        /\ posted[f] = 1
        /\ dropped[f] = 0

C4_NoFileMissed ==
    (clean /\ pc = "idle" /\ triggered) =>
        \A f \in InFolder :
            posted[f] = 0 => files[f] >= (now + 1) - lookbackOf(PROP)

\* C5: postToIngress makes at most `attempts` attempts; every attempt before
\* the last one failed (a throw or a non-2xx response) and was followed by
\* another attempt; it returns true exactly when the last attempt got a 2xx,
\* and false exactly when all `attempts` attempts failed.
C5_PostToIngressContract ==
    /\ Len(callLog) <= attempts
    /\ \A k \in 1..(Len(callLog) - 1) : ~Is2xx(callLog[k])
    /\ pc = "fetch" =>
          /\ AllFailed(callLog)
          /\ Len(callLog) < attempts
          /\ i = Len(callLog) + 1
          /\ ret = Null
    /\ pc = "ret" =>
          /\ callLog # <<>>
          /\ Val(ret) = TRUE <=> Is2xx(callLog[Len(callLog)])
          /\ Val(ret) = FALSE <=> (Len(callLog) = attempts /\ AllFailed(callLog))

\* C5 witness: a call returns true at its third attempt, after a throw and a
\* non-2xx response.
C5_Witness ==
    /\ pc = "ret"
    /\ Val(ret) = TRUE
    /\ Len(callLog) = attempts
    /\ callLog[1] = THROW
    /\ callLog[2] \in ResponseCodes

C7_CacheIsLastAdded ==
    LET n == Len(added)
        k == Len(PROP.SEEN_IDS_JSON)
    IN /\ k <= SeenCap
       /\ k = (IF n <= SeenCap THEN n ELSE SeenCap)
       /\ \A j \in 1..k : PROP.SEEN_IDS_JSON[j] = added[n - k + j]

\* C7 witness: more than 500 ids have been added and a scan has persisted.
C7_Witness ==
    /\ pc = "idle"
    /\ outcome = "done"
    /\ Len(added) > SeenCap + 1

\* C8: a run sets LAST_RUN_ISO to its invocation time, and a run started
\* with another stored watermark queries the same window and gets the same
\* listing: the watermark is written, never read.
C8_WatermarkNotRead ==
    pc # "idle" =>
        /\ PROP.LAST_RUN_ISO = Some(now)
        /\ twinSince = sinceIso
        /\ Matching(files, twinSince, 1) = Matching(files, sinceIso, 1)

\* C8 witness: a run that started with a stored watermark inside its window
\* has handed a file off.
C8_Witness ==
    /\ pc # "idle"
    /\ IsSet(startMark)
    /\ Val(startMark) > sinceIso
    /\ \E f \in InFolder : files[f] < Val(startMark) /\ f \in Range(newIds)

C10_IdempotentAppend ==
    \A m \in Months, h \in Hashes :
        /\ appendCount[m][h] <= 1
        /\ RowCount(ledger[m], h) = appendCount[m][h] * LineItems(h)

\* C10 witness: after the rows of a content identity were appended, each of
\* the two writers has finished a further delivery for it, and its rows are
\* in the ledger once.
C10_Witness ==
    \E m \in Months, h \in Hashes :
        /\ \A w \in Writers : <<w, h>> \in suppressed
        /\ appendCount[m][h] = 1
        /\ RowCount(ledger[m], h) = LineItems(h)
        /\ \A w \in Writers : wpc[w] = "idle"

\* the content identities that have a row with status OK
OkHashes(rows) ==
    {h \in Hashes : \E k \in 1..Len(rows) :
        rows[k].image_hash = h /\ rows[k].status = "OK"}

\* the total of a content identity, read from its first row
TotalIn(rows, h) ==
    rows[CHOOSE k \in 1..Len(rows) :
            /\ rows[k].image_hash = h
            /\ \A j \in 1..(k - 1) : rows[j].image_hash # h].total

\* sum of total over the content identities with status OK, each counted once
ExpectedAggregate(rows) ==
    LET F[n \in 0..NumHashes] ==
            IF n = 0 THEN 0
            ELSE F[n - 1] + (IF n \in OkHashes(rows) THEN TotalIn(rows, n) ELSE 0)
    IN F[NumHashes]

\* a writer has appended to ledger m and not yet overwritten its footer
FooterPending(m) ==
    \E w \in Writers : wpc[w] = "recompute" /\ Val(wmsg[w]).month_key = m

\* C11: once a ledger write is complete, the MONTH TOTAL of a monthly ledger
\* is the sum of total over the distinct content identities whose rows have
\* status OK (a receipt of several rows counted once, NEEDS REVIEW rows left
\* out), a duplicate delivery leaves it so, and the documented footer formula
\* evaluated over the rows of the ledger yields that same value.
C11_MonthTotal ==
    \A m \in Months :
        /\ recomputeAggregate(ledger[m]) = ExpectedAggregate(ledger[m])
        /\ ~FooterPending(m) =>
               IF ledger[m] = <<>> THEN aggregate[m] = Null
               ELSE aggregate[m] = Some(ExpectedAggregate(ledger[m]))

\* C11 witness: a ledger holds a receipt of two rows with status OK and a
\* NEEDS REVIEW receipt, a duplicate delivery has been suppressed, all writers
\* are done, and the footer shows the total of the one OK receipt.
C11_Witness ==
    \E m \in Months :
        /\ \A w \in Writers : wpc[w] = "idle"
        /\ OkHashes(ledger[m]) = {2}
        /\ hasRow(ledger[m], 1)
        /\ suppressed # {}
        /\ aggregate[m] = Some(TotalOf(2))

\* the validator instances that are through with their event
AllValidated == \A v \in Validators : vpc[v] = "idle"

InPost == pc \in {"fetch", "ret"}

\* C13: in one scan HTTP attempts are made only for a file that is not in the
\* cache when its callback runs (so none for a file cached at scan start and
\* none for a file already handed off in this scan, also when it is listed a
\* second time), every file of a page that was not in the cache when its
\* callback ran got at least one attempt, and only cached files are passed
\* over.
C13_HandOffExactlyNonCached ==
    /\ InPost => /\ page[idx] \notin Range(seen)
                 /\ page[idx] \notin Range(newIds)
    /\ outcome \in {"running", "done", "aborted"} =>
          /\ tried \cap Range(startSeen) = {}
          /\ skipped \subseteq Range(startSeen) \cup Range(newIds)
          /\ tried \cap skipped \subseteq Range(newIds)
          /\ \A k, j \in 1..Len(newIds) : newIds[k] = newIds[j] => k = j
    /\ pc = "each" =>
          \A k \in 1..(idx - 1) :
              /\ page[k] \in tried \cup skipped
              /\ page[k] \notin Range(seen) => page[k] \in tried \ skipped

\* C13 witness: a scan over two pages handed off both files; the first file
\* was listed again on the second page and passed over that time.
C13_Witness ==
    /\ outcome = "done"
    /\ Len(newIds) = 2
    /\ newIds[1] \in tried \cap skipped
    /\ posted[newIds[1]] = 1

\* the last SeenCap entries of the ids a scan loaded followed by the ids it
\* handed off
LoadedThenNew ==
    LET all == startSeen \o newIds
        from == IF Len(all) > SeenCap THEN Len(all) - SeenCap + 1 ELSE 1
    IN SubSeq(all, from, Len(all))

\* C14: with one run at a time, the step that ends a scan normally leaves in
\* SEEN_IDS_JSON the last 500 entries of the ids loaded at scan start followed
\* by the ids handed off in this scan, in order; and the next scan, when the
\* one before it handed off at most 500 files, starts with all of them in its
\* cache.
C14_CacheAfterScan ==
    [][/\ (outcome = "running" /\ outcome' = "done") =>
              PROP'.SEEN_IDS_JSON = LoadedThenNew
       /\ (outcome = "done" /\ outcome' = "running" /\ Len(newIds) <= SeenCap) =>
              Range(newIds) \subseteq Range(seen')]_vars

\* C14 witness: a scan that started with a full cache of 500 ids and handed a
\* file off has ended normally; the oldest loaded id is gone from the
\* persisted cache, the new id is its last entry.
C14_Witness ==
    /\ outcome = "done"
    /\ Len(startSeen) = SeenCap
    /\ Len(newIds) = 1
    /\ PROP.SEEN_IDS_JSON = SubSeq(startSeen, 2, SeenCap) \o newIds
    /\ startSeen[1] \notin Range(PROP.SEEN_IDS_JSON)

\* C15: persistSeenIds is the last statement of pollFolder: while a scan runs
\* and after a scan that Drive.Files.list ended with an exception,
\* SEEN_IDS_JSON is what it was when the scan started, and the ids handed off
\* in the aborted scan are not in it.
C15_AbortLeavesCache ==
    /\ outcome \in {"running", "aborted"} => PROP.SEEN_IDS_JSON = startSeen
    /\ outcome = "aborted" =>
          /\ pc = "idle"
          /\ Range(newIds) \cap Range(PROP.SEEN_IDS_JSON) = {}

\* C15 witness: a scan handed a file off with a 2xx response, then
\* Drive.Files.list threw on the next page; the file's id is not in the
\* persisted cache.
C15_Witness ==
    /\ outcome = "aborted"
    /\ Len(newIds) = 1
    /\ posted[newIds[1]] = 1
    /\ newIds[1] \notin Range(PROP.SEEN_IDS_JSON)
    /\ PROP.SEEN_IDS_JSON = startSeen

\* one of the three required script properties has no value
RequiredUnset ==
    \E k \in {"FOLDER_ID", "INGRESS_URL", "API_KEY"} : PROP[k] = Null

\* C16: while one of FOLDER_ID, INGRESS_URL, API_KEY is missing, a trigger
\* that fires ends in the error of loadConfig and no step lists or posts: no
\* HTTP attempt is made, no file is handed off, pollFolder does not get past
\* its first statement, and the script properties, SEEN_IDS_JSON and
\* LAST_RUN_ISO among them, stay as they are.
C16_MissingConfigFailsFirst ==
    [][RequiredUnset =>
          /\ pc' = "idle"
          /\ PROP' = PROP
          /\ posted' = posted
          /\ tried' \subseteq tried
          /\ callLog' = <<>>
          /\ (~triggered /\ triggered') => outcome' = "noconfig"]_vars

\* C16 witness: after a scan that handed a file off and left a cache and a
\* watermark, a required property was deleted; the next trigger fired with a
\* new file in the folder and the run ended in the error, cache and watermark
\* as before and the new file not posted.
C16_Witness ==
    /\ outcome = "noconfig"
    /\ RequiredUnset
    /\ startSeen = <<1>>
    /\ PROP.SEEN_IDS_JSON = startSeen
    /\ IsSet(startMark)
    /\ PROP.LAST_RUN_ISO = startMark
    /\ Val(startMark) < now
    /\ Len(files) = 2
    /\ posted[2] = 0

=============================================================================
